---- MODULE Spec2Model ----
(***************************************************************************)
(* Model of src/lib/install.js: install(options), installOpenCode and      *)
(* installCopilot of the nudge installer.  One run of install() is one     *)
(* behaviour: Init draws the CLI options and the state of the file system, *)
(* every action is one step of the code between two suspension points      *)
(* (a prompt, a file-system call, a return).  MergeSpec runs the OpenCode  *)
(* install, and runs it again on the disk it left, over templates with     *)
(* every small header, for the properties of the frontmatter merge.        *)
(*                                                                         *)
(* Text values (colors, model identifiers) are sequences of one-character  *)
(* strings, so that isValidHexColor and String.includes are computed.      *)
(* undefined and '' are both the empty sequence: the code only ever tests  *)
(* them for truthiness.                                                    *)
(***************************************************************************)
EXTENDS Integers, Sequences, FiniteSets, TLC

VARIABLES
    pc,             \* position of the run inside install()
    options,        \* the CLI options object passed to install()
    isInteractive,  \* install.js:227
    platforms,      \* install.js:232, the resolved platform array
    selectedModel,  \* install.js:41
    selectedColor,  \* install.js:42
    content,        \* install.js:162 / 214, the text about to be written
    results,        \* install.js:270
    dirs,           \* directories that exist
    fs,             \* files: path -> document (exists flag and content)
    retypes,        \* rejected entries typed so far at the open text prompt
    log,            \* every call made to the prompt library and to fs, in order
    report,         \* install.js:298-319, what the final note and outro show
    exitCode        \* process.exit code, "none" while the process runs

vars == <<pc, options, isInteractive, platforms, selectedModel, selectedColor,
          content, results, dirs, fs, retypes, log, report, exitCode>>

\* How many times the user may type a rejected value at one text prompt
\* before typing an accepted one or cancelling.
MaxRetype == 1

\* How many fields the header of a template of MergeSpec may have, how many
\* keys an update set of the merge properties may have, and how many times
\* MergeSpec runs the installer on the same disk.
MaxHeaderFields == 2
MaxUpdates == 2
MaxRuns == 2

-----------------------------------------------------------------------------
(* Text values *)

NoText == <<>>

\* JS truthiness of a string-or-undefined value
Truthy(s) == s # NoText

Includes(s, ch) == \E i \in 1..Len(s) : s[i] = ch

HexDigits ==
    {"0", "1", "2", "3", "4", "5", "6", "7", "8", "9",
     "a", "b", "c", "d", "e", "f", "A", "B", "C", "D", "E", "F"}

\* utils.js: '#' followed by exactly six hexadecimal digits
isValidHexColor(s) ==
    /\ Len(s) = 7
    /\ s[1] = "#"
    /\ \A i \in 2..7 : s[i] \in HexDigits

DEFAULT_COLOR == <<"#", "1", "4", "B", "8", "A", "6">>
ColorBlue == <<"#", "3", "b", "8", "2", "f", "6">>
ColorRed == <<"r", "e", "d">>
ColorShort == <<"#", "1", "4", "B", "8", "A">>

ModelBare == <<"g", "p", "t">>
ModelFull == <<"a", "/", "b">>

\* the value of the "custom" menu entry and the cancel symbol of the prompt
\* library; neither is a text a menu preset or the user can supply
CustomChoice == <<"__custom__">>
CancelSymbol == <<"<cancel>">>

\* variant: the cancel symbol of a menu or text prompt goes unrecognised
isCancel_Never(v) == FALSE

\* p.isCancel
isCancel(v) == v = CancelSymbol

\* the same cancel symbol as the answer of a prompt whose values are not texts
\* (the platform menu, the yes/no confirmation)
CancelKey == "<cancel>"

\* variant: the cancel symbol of the platform menu or a confirmation goes
\* unrecognised
isCancelKey_Never(v) == FALSE

isCancelKey(v) == v = CancelKey

ConfirmAnswers == {"yes", "no", CancelKey}

\* how the log names what the user did at a prompt, whatever the code makes
\* of it: at a menu or text prompt, and at the platform menu or a confirmation
TextAnswerKind(v) == IF v = CancelSymbol THEN "cancel" ELSE "answer"

AnswerKind(v) ==
    IF v = CancelKey THEN "cancel" ELSE IF v = "no" THEN "no" ELSE "answer"

COLOR_OPTIONS == {DEFAULT_COLOR, ColorBlue}
MODEL_OPTIONS == {NoText, ModelFull}
PLATFORM_OPTIONS == {"opencode", "copilot", "both"}

\* what the caller may pass as options.model / options.color
ModelInputs == {NoText, ModelBare, ModelFull}
ColorInputs == {NoText, ColorRed, DEFAULT_COLOR}

\* what the user may type at the two text prompts
ModelTyped == {NoText, ModelBare, ModelFull}
ColorTyped == {NoText, ColorShort, ColorBlue}

-----------------------------------------------------------------------------
(* Documents and the frontmatter merge *)

Field(k, v) == [key |-> k, value |-> v]

Doc(h, f, b) == [exists |-> TRUE, header |-> h, fields |-> f, body |-> b]

NoFile == [exists |-> FALSE, header |-> FALSE, fields |-> <<>>, body |-> ""]

Quoted(s) == <<"\"">> \o s \o <<"\"">>

HasKey(fields, k) == \E i \in 1..Len(fields) : fields[i].key = k

\* variant: the key is appended whether or not the header has it
SetField_AlwaysAppend(fields, k, v) == Append(fields, Field(k, v))

\* an existing key is replaced in place, a new key is appended
SetField(fields, k, v) ==
    IF HasKey(fields, k)
    THEN [i \in 1..Len(fields) |->
             IF fields[i].key = k THEN Field(k, v) ELSE fields[i]]
    ELSE Append(fields, Field(k, v))

RECURSIVE ApplyUpdates(_, _)
ApplyUpdates(fields, updates) ==
    IF updates = <<>> THEN fields
    ELSE ApplyUpdates(SetField(fields, Head(updates).key, Head(updates).value),
                      Tail(updates))

\* updateFrontmatter signals MalformedDocument on a document with no header
MergeFails(doc) == ~doc.header

updateFrontmatter(doc, updates) ==
    [doc EXCEPT !.fields = ApplyUpdates(doc.fields, updates)]

OldAgent == Doc(TRUE, <<Field("color", Quoted(ColorBlue))>>, "old agent")
OldCopilot == Doc(FALSE, <<>>, "old copilot agent")

OpenCodeTemplates ==
    {NoFile,
     Doc(FALSE, <<>>, "learn"),
     Doc(TRUE, <<Field("description", <<"L">>),
                 Field("color", Quoted(ColorRed))>>, "learn")}

CopilotTemplates == {NoFile, Doc(FALSE, <<>>, "learn copilot")}

\* the sequences of at most n distinct keys of K
KeyOrders(K, n) ==
    {ks \in UNION {[1..m -> K] : m \in 0..n} :
        \A i, j \in 1..Len(ks) : i # j => ks[i] # ks[j]}

\* the value a template gives a key, and the value an update gives it
OldValue(k) ==
    IF k = "color" THEN Quoted(ColorRed)
    ELSE IF k = "model" THEN ModelBare
    ELSE <<"L">>

NewValue(k) ==
    IF k = "color" THEN Quoted(ColorBlue)
    ELSE IF k = "model" THEN ModelFull
    ELSE <<"N">>

\* the templates of MergeSpec: a header of at most MaxHeaderFields fields,
\* with and without a color and a model of its own
MergeDocs ==
    {Doc(TRUE, [i \in 1..Len(ks) |-> Field(ks[i], OldValue(ks[i]))], "learn") :
        ks \in KeyOrders({"description", "color", "model"}, MaxHeaderFields)}

\* update sets, as the ordered entries of an object: at most MaxUpdates
\* distinct keys
UpdateSets ==
    {[i \in 1..Len(ks) |-> Field(ks[i], NewValue(ks[i]))] :
        ks \in KeyOrders({"color", "model", "mode"}, MaxUpdates)}

-----------------------------------------------------------------------------
(* The run *)

BothPlatforms == <<"opencode", "copilot">>

InSeq(x, s) == \E i \in 1..Len(s) : s[i] = x

Ev(k, p, w) == [kind |-> k, plat |-> p, what |-> w]

Logged(k, p, w) == InSeq(Ev(k, p, w), log)

NullResult == [installed |-> FALSE, model |-> NoText, color |-> NoText]

OptionSets ==
    [all : BOOLEAN, opencode : BOOLEAN, copilot : BOOLEAN, tui : BOOLEAN,
     model : ModelInputs, color : ColorInputs]

\* the directories and agent files a run may find
OpenCodeDisks ==
    {<<{}, NoFile>>, <<{"ocConfig"}, NoFile>>,
     <<{"ocConfig", "ocAgents"}, OldAgent>>}

CopilotDisks == {<<{}, NoFile>>, <<{"cpConfig", "cpAgents"}, OldCopilot>>}

Init ==
    /\ options \in OptionSets
    /\ isInteractive = options.tui  \* options.tui !== false; TRUE also stands for undefined
    /\ platforms = <<>>
    /\ results = [opencode |-> NullResult, copilot |-> FALSE]
    /\ \E od \in OpenCodeDisks, cd \in CopilotDisks,
          ot \in OpenCodeTemplates, ct \in CopilotTemplates :
          /\ dirs = od[1] \cup cd[1]
          /\ fs = [ocAgent |-> od[2], cpAgent |-> cd[2],
                   ocTemplate |-> ot, cpTemplate |-> ct]
    /\ selectedModel = NoText
    /\ selectedColor = NoText
    /\ content = NoFile
    /\ retypes = 0
    /\ log = <<>>
    /\ report = [shown |-> FALSE, installed |-> <<>>, outro |-> "none"]
    /\ exitCode = "none"
    /\ pc = "start"

\* variant: the opencode flag is tested without looking at the copilot flag
FlagPlatforms_FirstFlagWins(opts) ==
    IF opts.all THEN BothPlatforms
    ELSE IF opts.opencode THEN <<"opencode">>
    ELSE IF opts.copilot THEN <<"copilot">>
    ELSE <<>>

\* install.js:234-241: the platforms the flags select, <<>> when they select none
FlagPlatforms(opts) ==
    IF opts.all THEN BothPlatforms
    ELSE IF opts.opencode /\ ~opts.copilot THEN <<"opencode">>
    ELSE IF opts.copilot /\ ~opts.opencode THEN <<"copilot">>
    ELSE IF opts.opencode /\ opts.copilot THEN BothPlatforms
    ELSE <<>>

\* install.js:259-263
ChoicePlatforms(choice) ==
    IF choice = "both" THEN BothPlatforms ELSE <<choice>>

\* install.js:231-267 up to the platform prompt
ResolvePlatforms ==
    /\ pc = "start"
    /\ IF FlagPlatforms(options) # <<>>
       THEN /\ platforms' = FlagPlatforms(options)
            /\ pc' = "oc_begin"
            /\ log' = log
       ELSE IF isInteractive
       THEN /\ platforms' = platforms
            /\ pc' = "platformChoice"
            /\ log' = Append(log, Ev("prompt", "run", "platformChoice"))
       ELSE /\ platforms' = BothPlatforms
            /\ pc' = "oc_begin"
            /\ log' = log
    /\ UNCHANGED <<options, isInteractive, selectedModel, selectedColor, content,
                   results, dirs, fs, retypes, report, exitCode>>

\* install.js:244-263: the answer to the platform prompt
PlatformChoice ==
    /\ pc = "platformChoice"
    /\ \E platformChoice \in PLATFORM_OPTIONS \cup {CancelKey} :
          IF isCancelKey(platformChoice)
          THEN /\ log' = Append(log, Ev(AnswerKind(platformChoice), "run", "platformChoice"))
               /\ exitCode' = "0"
               /\ pc' = "exited"
               /\ platforms' = platforms
          ELSE /\ log' = log \o <<Ev(AnswerKind(platformChoice), "run", "platformChoice"),
                                    Ev("chose", "run", platformChoice)>>
               /\ platforms' = ChoicePlatforms(platformChoice)
               /\ pc' = "oc_begin"
               /\ exitCode' = exitCode
    /\ UNCHANGED <<options, isInteractive, selectedModel, selectedColor, content,
                   results, dirs, fs, retypes, report>>

-----------------------------------------------------------------------------
(* installOpenCode *)

\* variant: a supplied model without '/' is dropped
InitialModel_Validated(opts) ==
    IF Truthy(opts.model) /\ Includes(opts.model, "/") THEN opts.model ELSE NoText

\* variant: an installer runs whatever the resolved set
Selected_Always(plat, resolved) == TRUE

\* install.js:276 and 286: platforms.includes(...)
Selected(plat, resolved) == InSeq(plat, resolved)

\* install.js:41
InitialModel(opts) == IF Truthy(opts.model) THEN opts.model ELSE NoText

\* install.js:42
InitialColor(opts) == IF Truthy(opts.color) THEN opts.color ELSE DEFAULT_COLOR

\* variant: only a cancellation declines, the answer no does not
Declined_CancelOnly(overwrite) == isCancelKey(overwrite)

\* install.js:63 and 198: p.isCancel(overwrite) || !overwrite
Declined(overwrite) == isCancelKey(overwrite) \/ overwrite = "no"

\* install.js:72
AsksModel(opts, interactive) == interactive /\ ~Truthy(opts.model)

\* variant: the color menu is shown although a color was supplied
AsksColor_IgnoresOption(opts, interactive) == interactive

\* install.js:112
AsksColor(opts, interactive) == interactive /\ ~Truthy(opts.color)

\* variant: a supplied color is never checked
RejectsColor_Never(opts, interactive) == FALSE

\* install.js:150
RejectsColor(opts, interactive) ==
    /\ ~AsksColor(opts, interactive)
    /\ Truthy(opts.color)
    /\ ~isValidHexColor(opts.color)

\* install.js:95-99: the validate callback of the model text prompt
ModelTextAccepted(value) == ~Truthy(value) \/ Includes(value, "/")

\* install.js:135-139: the validate callback of the color text prompt
ColorTextAccepted(value) == Truthy(value) /\ isValidHexColor(value)

\* variant: the model, when there is one, is entered before the color
Updates_ModelFirst(model, color) ==
    (IF Truthy(model) THEN <<Field("model", model)>> ELSE <<>>)
        \o <<Field("color", Quoted(color))>>

\* variant: the model key is always there, with an empty value if need be
Updates_AlwaysModel(model, color) ==
    <<Field("color", Quoted(color)), Field("model", model)>>

\* install.js:165-171: the update object, in insertion order
Updates(model, color) ==
    <<Field("color", Quoted(color))>>
        \o (IF Truthy(model) THEN <<Field("model", model)>> ELSE <<>>)

\* variant: install() goes to the report when installOpenCode has returned
AfterOpenCode_SkipsCopilot == "report"

\* install.js:278-283 and 286: where install() goes on when installOpenCode
\* has returned
AfterOpenCode == "cp_begin"

\* install.js:289-295 and 297: where install() goes on when installCopilot
\* has returned
AfterCopilot == "report"

\* variant: the check for the template file never finds it missing
TemplateMissing_Never(doc) == FALSE

\* install.js:157 and 209: !existsSync(templatePath)
TemplateMissing(doc) == ~doc.exists

\* variant: the exception of the merge is swallowed and the write goes ahead
AfterMergeFailure_Writes == "oc_write"

\* install.js:173-176: updateFrontmatter is called outside any try block, so
\* its exception leaves installOpenCode, and install(), before writeFileSync
AfterMergeFailure == "threw"

\* a return false of installOpenCode: results.opencode stays null
OpenCodeReturnsFalse ==
    /\ pc' = AfterOpenCode
    /\ results' = results

\* what mkdirSync(d, {recursive: true}) creates: the directory and the
\* parents it lacks; an agents directory lies in its config directory
WithParents(d) ==
    IF d = "ocAgents" THEN {"ocConfig", "ocAgents"}
    ELSE IF d = "cpAgents" THEN {"cpConfig", "cpAgents"}
    ELSE {d}

\* variant: no directory is ever created
Mkdir_Skipped(plat, d, next) ==
    /\ pc' = next
    /\ UNCHANGED <<dirs, log>>

\* mkdirSync(d, {recursive: true}) behind its existsSync guard; the call
\* either creates the directory or throws
Mkdir(plat, d, next) ==
    IF d \in dirs
    THEN /\ pc' = next
         /\ UNCHANGED <<dirs, log>>
    ELSE \E created \in BOOLEAN :
            IF created
            THEN /\ dirs' = dirs \cup WithParents(d)
                 /\ log' = Append(log, Ev("mkdir", plat, d))
                 /\ pc' = next
            ELSE /\ dirs' = dirs
                 /\ log' = Append(log, Ev("throw", plat, "mkdirSync"))
                 /\ pc' = "threw"

\* install.js:276-277, 41-42
OCBegin ==
    /\ pc = "oc_begin"
    /\ IF Selected("opencode", platforms)
       THEN /\ selectedModel' = InitialModel(options)
            /\ selectedColor' = InitialColor(options)
            /\ pc' = "oc_mkConfig"
       ELSE /\ pc' = "cp_begin"
            /\ UNCHANGED <<selectedModel, selectedColor>>
    /\ UNCHANGED <<options, isInteractive, platforms, content, results, dirs, fs,
                   retypes, log, report, exitCode>>

\* install.js:45-48
OCMkConfig ==
    /\ pc = "oc_mkConfig"
    /\ Mkdir("opencode", "ocConfig", "oc_mkAgents")
    /\ UNCHANGED <<options, isInteractive, platforms, selectedModel, selectedColor,
                   content, results, fs, retypes, report, exitCode>>

\* install.js:51-53
OCMkAgents ==
    /\ pc = "oc_mkAgents"
    /\ Mkdir("opencode", "ocAgents", "oc_exists")
    /\ UNCHANGED <<options, isInteractive, platforms, selectedModel, selectedColor,
                   content, results, fs, retypes, report, exitCode>>

\* install.js:56-70 up to the confirmation prompt
OCExists ==
    /\ pc = "oc_exists"
    /\ IF fs.ocAgent.exists
       THEN IF isInteractive
            THEN /\ log' = Append(log, Ev("prompt", "opencode", "overwrite"))
                 /\ pc' = "oc_confirm"
            ELSE /\ log' = Append(log, Ev("warn", "opencode", "Overwriting..."))
                 /\ pc' = "oc_modelGate"
       ELSE /\ log' = log
            /\ pc' = "oc_modelGate"
    /\ UNCHANGED <<options, isInteractive, platforms, selectedModel, selectedColor,
                   content, results, dirs, fs, retypes, report, exitCode>>

\* install.js:58-66: the answer to the overwrite confirmation
OCConfirm ==
    /\ pc = "oc_confirm"
    /\ \E overwrite \in ConfirmAnswers :
          IF Declined(overwrite)
          THEN /\ log' = log \o <<Ev(AnswerKind(overwrite), "opencode", "overwrite"),
                                    Ev("warn", "opencode", "Skipping")>>
               /\ OpenCodeReturnsFalse
          ELSE /\ log' = Append(log, Ev(AnswerKind(overwrite), "opencode", "overwrite"))
               /\ pc' = "oc_modelGate"
               /\ results' = results
    /\ UNCHANGED <<options, isInteractive, platforms, selectedModel, selectedColor,
                   content, dirs, fs, retypes, report, exitCode>>

\* install.js:72-74: is the model menu shown
OCModelGate ==
    /\ pc = "oc_modelGate"
    /\ IF AsksModel(options, isInteractive)
       THEN /\ log' = Append(log, Ev("prompt", "opencode", "modelChoice"))
            /\ pc' = "oc_modelChoice"
       ELSE /\ log' = log
            /\ pc' = "oc_colorGate"
    /\ UNCHANGED <<options, isInteractive, platforms, selectedModel, selectedColor,
                   content, results, dirs, fs, retypes, report, exitCode>>

\* install.js:74-92, 107-109: the answer to the model menu
OCModelChoice ==
    /\ pc = "oc_modelChoice"
    /\ \E modelChoice \in MODEL_OPTIONS \cup {CustomChoice, CancelSymbol} :
          IF isCancel(modelChoice)
          THEN /\ log' = Append(log, Ev(TextAnswerKind(modelChoice), "opencode", "modelChoice"))
               /\ OpenCodeReturnsFalse
               /\ UNCHANGED selectedModel
          ELSE IF modelChoice = CustomChoice
          THEN /\ log' = log \o <<Ev(TextAnswerKind(modelChoice), "opencode", "modelChoice"),
                                    Ev("prompt", "opencode", "customModel")>>
               /\ pc' = "oc_customModel"
               /\ UNCHANGED <<selectedModel, results>>
          ELSE /\ log' = Append(log, Ev(TextAnswerKind(modelChoice), "opencode", "modelChoice"))
               /\ selectedModel' = modelChoice
               /\ pc' = "oc_colorGate"
               /\ results' = results
    /\ UNCHANGED <<options, isInteractive, platforms, selectedColor, content, dirs,
                   fs, retypes, report, exitCode>>

\* install.js:92-106: an entry at the model text prompt; a rejected entry
\* leaves the prompt open
OCCustomModel ==
    /\ pc = "oc_customModel"
    /\ \E customModel \in ModelTyped \cup {CancelSymbol} :
          IF isCancel(customModel)
          THEN /\ log' = Append(log, Ev(TextAnswerKind(customModel), "opencode", "customModel"))
               /\ OpenCodeReturnsFalse
               /\ retypes' = 0
               /\ UNCHANGED selectedModel
          ELSE IF ~ModelTextAccepted(customModel)
          THEN /\ retypes < MaxRetype
               /\ log' = Append(log, Ev("reject", "opencode", "customModel"))
               /\ retypes' = retypes + 1
               /\ UNCHANGED <<pc, selectedModel, results>>
          ELSE /\ log' = Append(log, Ev(TextAnswerKind(customModel), "opencode", "customModel"))
               /\ selectedModel' = (IF Truthy(customModel) THEN customModel ELSE NoText)
               /\ pc' = "oc_colorGate"
               /\ retypes' = 0
               /\ results' = results
    /\ UNCHANGED <<options, isInteractive, platforms, selectedColor, content, dirs,
                   fs, report, exitCode>>

\* install.js:112-114, 150-153: is the color menu shown, is the supplied
\* color rejected
OCColorGate ==
    /\ pc = "oc_colorGate"
    /\ IF AsksColor(options, isInteractive)
       THEN /\ log' = Append(log, Ev("prompt", "opencode", "colorChoice"))
            /\ pc' = "oc_colorChoice"
            /\ results' = results
       ELSE IF RejectsColor(options, isInteractive)
       THEN /\ log' = Append(log, Ev("error", "opencode", "Invalid hex color"))
            /\ OpenCodeReturnsFalse
       ELSE /\ log' = log
            /\ pc' = "oc_template"
            /\ results' = results
    /\ UNCHANGED <<options, isInteractive, platforms, selectedModel, selectedColor,
                   content, dirs, fs, retypes, report, exitCode>>

\* install.js:114-132, 147-149: the answer to the color menu
OCColorChoice ==
    /\ pc = "oc_colorChoice"
    /\ \E colorChoice \in COLOR_OPTIONS \cup {CustomChoice, CancelSymbol} :
          IF isCancel(colorChoice)
          THEN /\ log' = Append(log, Ev(TextAnswerKind(colorChoice), "opencode", "colorChoice"))
               /\ OpenCodeReturnsFalse
               /\ UNCHANGED selectedColor
          ELSE IF colorChoice = CustomChoice
          THEN /\ log' = log \o <<Ev(TextAnswerKind(colorChoice), "opencode", "colorChoice"),
                                    Ev("prompt", "opencode", "customColor")>>
               /\ pc' = "oc_customColor"
               /\ UNCHANGED <<selectedColor, results>>
          ELSE /\ log' = Append(log, Ev(TextAnswerKind(colorChoice), "opencode", "colorChoice"))
               /\ selectedColor' = colorChoice
               /\ pc' = "oc_template"
               /\ results' = results
    /\ UNCHANGED <<options, isInteractive, platforms, selectedModel, content, dirs,
                   fs, retypes, report, exitCode>>

\* install.js:132-146: an entry at the color text prompt
OCCustomColor ==
    /\ pc = "oc_customColor"
    /\ \E customColor \in ColorTyped \cup {CancelSymbol} :
          IF isCancel(customColor)
          THEN /\ log' = Append(log, Ev(TextAnswerKind(customColor), "opencode", "customColor"))
               /\ OpenCodeReturnsFalse
               /\ retypes' = 0
               /\ UNCHANGED selectedColor
          ELSE IF ~ColorTextAccepted(customColor)
          THEN /\ retypes < MaxRetype
               /\ log' = Append(log, Ev("reject", "opencode", "customColor"))
               /\ retypes' = retypes + 1
               /\ UNCHANGED <<pc, selectedColor, results>>
          ELSE /\ log' = Append(log, Ev(TextAnswerKind(customColor), "opencode", "customColor"))
               /\ selectedColor' = customColor
               /\ pc' = "oc_template"
               /\ retypes' = 0
               /\ results' = results
    /\ UNCHANGED <<options, isInteractive, platforms, selectedModel, content, dirs,
                   fs, report, exitCode>>

\* install.js:155-173: read the template and merge the updates into it
OCTemplate ==
    /\ pc = "oc_template"
    /\ IF TemplateMissing(fs.ocTemplate)
       THEN /\ log' = Append(log, Ev("error", "opencode", "template not found"))
            /\ OpenCodeReturnsFalse
            /\ content' = content
       ELSE IF MergeFails(fs.ocTemplate)
       THEN /\ log' = Append(log, Ev("throw", "opencode", "updateFrontmatter"))
            /\ pc' = AfterMergeFailure
            /\ UNCHANGED <<content, results>>
       ELSE /\ content' = updateFrontmatter(fs.ocTemplate,
                                            Updates(selectedModel, selectedColor))
            /\ pc' = "oc_write"
            /\ UNCHANGED <<log, results>>
    /\ UNCHANGED <<options, isInteractive, platforms, selectedModel, selectedColor,
                   dirs, fs, retypes, report, exitCode>>

\* install.js:176-178 and 281: writeFileSync either replaces the whole file
\* or throws
OCWrite ==
    /\ pc = "oc_write"
    /\ \E written \in BOOLEAN :
          IF written
          THEN /\ fs' = [fs EXCEPT !.ocAgent = content]
               /\ log' = Append(log, Ev("write", "opencode", "ocAgent"))
               /\ results' = [results EXCEPT !.opencode =
                                [installed |-> TRUE, model |-> selectedModel,
                                 color |-> selectedColor]]
               /\ pc' = AfterOpenCode
          ELSE /\ log' = Append(log, Ev("throw", "opencode", "writeFileSync"))
               /\ pc' = "threw"
               /\ UNCHANGED <<fs, results>>
    /\ UNCHANGED <<options, isInteractive, platforms, selectedModel, selectedColor,
                   content, dirs, retypes, report, exitCode>>

-----------------------------------------------------------------------------
(* installCopilot *)

\* a return false of installCopilot: results.copilot stays null and the
\* spinner is stopped with "skipped" (install.js:292-294)
CopilotReturnsFalse ==
    /\ pc' = AfterCopilot
    /\ results' = results

\* install.js:286-288
CPBegin ==
    /\ pc = "cp_begin"
    /\ IF Selected("copilot", platforms)
       THEN /\ log' = Append(log, Ev("spinner", "copilot", "Installing"))
            /\ pc' = "cp_mkdir"
       ELSE /\ log' = log
            /\ pc' = "report"
    /\ UNCHANGED <<options, isInteractive, platforms, selectedModel, selectedColor,
                   content, results, dirs, fs, retypes, report, exitCode>>

\* install.js:186-188
CPMkdir ==
    /\ pc = "cp_mkdir"
    /\ Mkdir("copilot", "cpAgents", "cp_exists")
    /\ UNCHANGED <<options, isInteractive, platforms, selectedModel, selectedColor,
                   content, results, fs, retypes, report, exitCode>>

\* install.js:191-205 up to the confirmation prompt
CPExists ==
    /\ pc = "cp_exists"
    /\ IF fs.cpAgent.exists
       THEN IF isInteractive
            THEN /\ log' = Append(log, Ev("prompt", "copilot", "overwrite"))
                 /\ pc' = "cp_confirm"
            ELSE /\ log' = Append(log, Ev("warn", "copilot", "Overwriting..."))
                 /\ pc' = "cp_template"
       ELSE /\ log' = log
            /\ pc' = "cp_template"
    /\ UNCHANGED <<options, isInteractive, platforms, selectedModel, selectedColor,
                   content, results, dirs, fs, retypes, report, exitCode>>

\* install.js:193-201: the answer to the overwrite confirmation
CPConfirm ==
    /\ pc = "cp_confirm"
    /\ \E overwrite \in ConfirmAnswers :
          IF Declined(overwrite)
          THEN /\ log' = log \o <<Ev(AnswerKind(overwrite), "copilot", "overwrite"),
                                    Ev("warn", "copilot", "Skipping")>>
               /\ CopilotReturnsFalse
          ELSE /\ log' = Append(log, Ev(AnswerKind(overwrite), "copilot", "overwrite"))
               /\ pc' = "cp_template"
               /\ results' = results
    /\ UNCHANGED <<options, isInteractive, platforms, selectedModel, selectedColor,
                   content, dirs, fs, retypes, report, exitCode>>

\* install.js:207-214: read the template, no merge
CPTemplate ==
    /\ pc = "cp_template"
    /\ IF TemplateMissing(fs.cpTemplate)
       THEN /\ log' = Append(log, Ev("error", "copilot", "template not found"))
            /\ CopilotReturnsFalse
            /\ content' = content
       ELSE /\ content' = fs.cpTemplate
            /\ pc' = "cp_write"
            /\ UNCHANGED <<log, results>>
    /\ UNCHANGED <<options, isInteractive, platforms, selectedModel, selectedColor,
                   dirs, fs, retypes, report, exitCode>>

\* install.js:217-219 and 289-291
CPWrite ==
    /\ pc = "cp_write"
    /\ \E written \in BOOLEAN :
          IF written
          THEN /\ fs' = [fs EXCEPT !.cpAgent = content]
               /\ log' = Append(log, Ev("write", "copilot", "cpAgent"))
               /\ results' = [results EXCEPT !.copilot = TRUE]
               /\ pc' = AfterCopilot
          ELSE /\ log' = Append(log, Ev("throw", "copilot", "writeFileSync"))
               /\ pc' = "threw"
               /\ UNCHANGED <<fs, results>>
    /\ UNCHANGED <<options, isInteractive, platforms, selectedModel, selectedColor,
                   content, dirs, retypes, report, exitCode>>

-----------------------------------------------------------------------------
(* The report *)

Line(l, v) == [label |-> l, value |-> v]

\* variant: the Copilot line is printed whether or not results.copilot is set
ReportLines_CopilotAlways(res) ==
    (IF res.opencode.installed
     THEN <<Line("OpenCode", <<"ocAgent">>), Line("Color", res.opencode.color),
            Line("Model", res.opencode.model)>>
     ELSE <<>>)
    \o <<Line("GitHub Copilot", <<"cpAgent">>)>>

\* install.js:298-312: the lines of the "Installed" note
ReportLines(res) ==
    (IF res.opencode.installed
     THEN <<Line("OpenCode", <<"ocAgent">>)>>
             \o (IF Truthy(res.opencode.color)
                 THEN <<Line("Color", res.opencode.color)>> ELSE <<>>)
             \o (IF Truthy(res.opencode.model)
                 THEN <<Line("Model", res.opencode.model)>>
                 ELSE <<Line("Model", <<"OpenCode default">>)>>)
     ELSE <<>>)
    \o (IF res.copilot THEN <<Line("GitHub Copilot", <<"cpAgent">>)>> ELSE <<>>)

\* install.js:297-319
Report ==
    /\ pc = "report"
    /\ report' = [shown |-> TRUE,
                  installed |-> ReportLines(results),
                  outro |-> IF Len(ReportLines(results)) > 0
                            THEN "installed" ELSE "No agents were installed."]
    /\ pc' = "done"
    /\ UNCHANGED <<options, isInteractive, platforms, selectedModel, selectedColor,
                   content, results, dirs, fs, retypes, log, exitCode>>

Next ==
    \/ ResolvePlatforms
    \/ PlatformChoice
    \/ OCBegin
    \/ OCMkConfig
    \/ OCMkAgents
    \/ OCExists
    \/ OCConfirm
    \/ OCModelGate
    \/ OCModelChoice
    \/ OCCustomModel
    \/ OCColorGate
    \/ OCColorChoice
    \/ OCCustomColor
    \/ OCTemplate
    \/ OCWrite
    \/ CPBegin
    \/ CPMkdir
    \/ CPExists
    \/ CPConfirm
    \/ CPTemplate
    \/ CPWrite
    \/ Report

Spec == Init /\ [][Next]_vars

\* the steps the program takes by itself; the others are answers of the user
ProgramStep ==
    \/ ResolvePlatforms
    \/ OCBegin
    \/ OCMkConfig
    \/ OCMkAgents
    \/ OCExists
    \/ OCModelGate
    \/ OCColorGate
    \/ OCTemplate
    \/ OCWrite
    \/ CPBegin
    \/ CPMkdir
    \/ CPExists
    \/ CPTemplate
    \/ CPWrite
    \/ Report

\* The run is one thread of synchronous code between its prompts: a step of
\* the program that is possible is taken.  Nothing is assumed of the user,
\* who may leave a prompt unanswered for ever.
FairSpec == Spec /\ WF_vars(ProgramStep)

\* the run is over: the report was shown, the process exited at the platform
\* prompt, or an exception left install()
Terminated == pc \in {"done", "exited", "threw"}

-----------------------------------------------------------------------------
(* The merge at work: OpenCode installed, and installed again, over        *)
(* templates with every header of MergeDocs                                *)

RECURSIVE Reruns(_)
Reruns(l) ==
    IF l = <<>> THEN 0
    ELSE (IF Head(l).kind = "rerun" THEN 1 ELSE 0) + Reruns(Tail(l))

\* install --opencode --no-tui with any model and a valid or no color
MergeOptions ==
    [all : {FALSE}, opencode : {TRUE}, copilot : {FALSE}, tui : {FALSE},
     model : ModelInputs, color : {NoText, DEFAULT_COLOR, ColorBlue}]

MergeInit ==
    /\ options \in MergeOptions
    /\ isInteractive = options.tui
    /\ platforms = <<>>
    /\ results = [opencode |-> NullResult, copilot |-> FALSE]
    /\ \E od \in {<<{}, NoFile>>, <<{"ocConfig", "ocAgents"}, OldAgent>>},
          ot \in MergeDocs :
          /\ dirs = od[1]
          /\ fs = [ocAgent |-> od[2], cpAgent |-> NoFile,
                   ocTemplate |-> ot, cpTemplate |-> NoFile]
    /\ selectedModel = NoText
    /\ selectedColor = NoText
    /\ content = NoFile
    /\ retypes = 0
    /\ log = <<>>
    /\ report = [shown |-> FALSE, installed |-> <<>>, outro |-> "none"]
    /\ exitCode = "none"
    /\ pc = "start"

\* install() is called again, with the same options, on the disk the run
\* before it left
Rerun ==
    /\ Terminated
    /\ Reruns(log) + 1 < MaxRuns
    /\ pc' = "start"
    /\ platforms' = <<>>
    /\ results' = [opencode |-> NullResult, copilot |-> FALSE]
    /\ selectedModel' = NoText
    /\ selectedColor' = NoText
    /\ content' = NoFile
    /\ retypes' = 0
    /\ report' = [shown |-> FALSE, installed |-> <<>>, outro |-> "none"]
    /\ exitCode' = "none"
    /\ log' = Append(log, Ev("rerun", "run", "install"))
    /\ UNCHANGED <<options, isInteractive, dirs, fs>>

MergeNext ==
    \/ ResolvePlatforms
    \/ OCBegin
    \/ OCMkConfig
    \/ OCMkAgents
    \/ OCExists
    \/ OCModelGate
    \/ OCColorGate
    \/ OCTemplate
    \/ OCWrite
    \/ CPBegin
    \/ Report
    \/ Rerun

MergeSpec == MergeInit /\ [][MergeNext]_vars

-----------------------------------------------------------------------------
(* Vocabulary of the properties *)

OCPrompts == {"overwrite", "modelChoice", "customModel", "colorChoice", "customColor"}

\* the prompt was cancelled by the user
CancelledAt(plat, w) == Logged("cancel", plat, w)

CancelledOpenCode == \E w \in OCPrompts : CancelledAt("opencode", w)

\* the prompt was shown
Prompted(plat, w) == Logged("prompt", plat, w)

OpenCodeWritten == Logged("write", "opencode", "ocAgent")

CopilotWritten == Logged("write", "copilot", "cpAgent")

\* installCopilot was called (the spinner starts right before the call)
CopilotAttempted == Logged("spinner", "copilot", "Installing")

\* positions of the run inside installOpenCode and inside installCopilot
OCStates ==
    {"oc_mkConfig", "oc_mkAgents", "oc_exists", "oc_confirm", "oc_modelGate",
     "oc_modelChoice", "oc_customModel", "oc_colorGate", "oc_colorChoice",
     "oc_customColor", "oc_template", "oc_write"}

CPStates == {"cp_mkdir", "cp_exists", "cp_confirm", "cp_template", "cp_write"}

\* positions where the run waits for the user
PromptStates ==
    {"platformChoice", "oc_confirm", "oc_modelChoice", "oc_customModel",
     "oc_colorChoice", "oc_customColor", "cp_confirm"}

\* the first position of event e in the log, 0 when it is not there
Pos(e) == IF InSeq(e, log) THEN CHOOSE i \in 1..Len(log) :
                                   log[i] = e /\ \A j \in 1..(i - 1) : log[j] # e
          ELSE 0

\* every step of installCopilot went well: no call threw, the overwrite was
\* not declined, the template was there
CopilotStepsSucceeded ==
    /\ \A i \in 1..Len(log) :
          log[i].plat = "copilot" => log[i].kind \notin {"throw", "no", "cancel", "error"}
    /\ fs.cpTemplate.exists

-----------------------------------------------------------------------------
(* C1 *)

\* C1: in a run that resolved both platforms, a cancellation at any prompt of
\* the OpenCode install (overwrite, model menu, model text, color menu, color
\* text) hands the run straight to the Copilot install, which is then
\* attempted, and the Copilot file holds its template at the end of the run
\* when every Copilot step succeeded.
C1_CancelScopedToPlatform ==
    /\ [](CancelledOpenCode /\ platforms = BothPlatforms
            => pc = "cp_begin" \/ CopilotAttempted)
    /\ (CancelledOpenCode /\ platforms = BothPlatforms ~> CopilotAttempted)
    /\ [](CancelledOpenCode /\ platforms = BothPlatforms /\ Terminated
             /\ CopilotStepsSucceeded
            => CopilotWritten /\ fs.cpAgent = fs.cpTemplate /\ results.copilot)

C1_Witness ==
    /\ platforms = BothPlatforms
    /\ CancelledAt("opencode", "modelChoice")
    /\ CopilotWritten
    /\ pc = "done"

-----------------------------------------------------------------------------
(* C2 *)

\* the lines of the final note that belong to OpenCode
OpenCodeReported ==
    \E i \in 1..Len(report.installed) :
        report.installed[i].label \in {"OpenCode", "Color", "Model"}

CopilotReported ==
    \E i \in 1..Len(report.installed) : report.installed[i].label = "GitHub Copilot"

\* C2: once a prompt of installOpenCode was cancelled, nothing more of the
\* OpenCode install happens (after the cancellation the log holds no OpenCode
\* prompt, answer, mkdir or write, only the "Skipping" warning), the run is
\* no longer inside installOpenCode, the OpenCode file is not written,
\* results.opencode stays null, no OpenCode error or exception was raised,
\* and the report does not list OpenCode.
C2_CancelEndsOpenCode ==
    \A w \in OCPrompts :
        CancelledAt("opencode", w) =>
            /\ \A i \in (Pos(Ev("cancel", "opencode", w)) + 1)..Len(log) :
                  log[i].plat = "opencode" => log[i].kind = "warn"
            /\ pc \notin OCStates
            /\ ~OpenCodeWritten
            /\ fs.ocAgent \in {NoFile, OldAgent}
            /\ results.opencode = NullResult
            /\ \A i \in 1..Len(log) :
                  log[i].plat = "opencode" => log[i].kind \notin {"error", "throw"}
            /\ ~OpenCodeReported

C2_Witness ==
    /\ CancelledAt("opencode", "customColor")
    /\ Logged("answer", "opencode", "customModel")
    /\ report.shown

-----------------------------------------------------------------------------
(* C3 *)

\* the caller supplied a color that is no hex color, prompts are off, and
\* OpenCode is among the resolved platforms
InvalidColorSupplied ==
    /\ Truthy(options.color)
    /\ ~isValidHexColor(options.color)
    /\ ~isInteractive
    /\ InSeq("opencode", platforms)

\* installOpenCode reached the check of the supplied color and rejected it
InvalidColorRejected == Logged("error", "opencode", "Invalid hex color")

\* the part of C3 about the OpenCode install itself: no color prompt, no
\* write, not reported as installed
InvalidColorStopsOpenCode ==
    InvalidColorSupplied =>
        /\ ~Prompted("opencode", "colorChoice")
        /\ ~Prompted("opencode", "customColor")
        /\ pc \notin {"oc_colorChoice", "oc_customColor", "oc_template", "oc_write"}
        /\ ~OpenCodeWritten
        /\ fs.ocAgent \in {NoFile, OldAgent}
        /\ results.opencode = NullResult
        /\ ~OpenCodeReported

\* C3: a supplied color that is no hex color, with prompts off, ends the
\* OpenCode install only: no color prompt, no OpenCode write, OpenCode not
\* reported as installed, and the finished run has attempted the other
\* selected platform and has shown the final report.
C3_InvalidColorEndsOpenCodeOnly ==
    /\ InvalidColorStopsOpenCode
    /\ InvalidColorSupplied /\ InvalidColorRejected /\ Terminated =>
          /\ InSeq("copilot", platforms) => CopilotAttempted
          /\ report.shown

\* what holds of the code: the same, for the runs that no exception ends
C3_UnlessThrown ==
    /\ InvalidColorStopsOpenCode
    /\ InvalidColorSupplied /\ Terminated /\ pc # "threw" =>
          /\ InvalidColorRejected
          /\ InSeq("copilot", platforms) => CopilotAttempted
          /\ report.shown

C3_Witness ==
    /\ InvalidColorSupplied
    /\ InvalidColorRejected
    /\ CopilotWritten
    /\ report.shown

-----------------------------------------------------------------------------
(* C4 *)

\* C4: a cancellation at the platform prompt ends the run with exit code 0
\* before any installer starts: the platform prompt and its cancellation are
\* all that happened (no mkdir, no other prompt, no write), no platform was
\* resolved, both target files are as they were found, nothing is recorded
\* as installed and no report is shown.
C4_PlatformCancelExits ==
    CancelledAt("run", "platformChoice") =>
        /\ pc = "exited"
        /\ exitCode = "0"
        /\ log = <<Ev("prompt", "run", "platformChoice"),
                   Ev("cancel", "run", "platformChoice")>>
        /\ platforms = <<>>
        /\ fs.ocAgent \in {NoFile, OldAgent}
        /\ fs.cpAgent \in {NoFile, OldCopilot}
        /\ results = [opencode |-> NullResult, copilot |-> FALSE]
        /\ ~report.shown

C4_Witness == CancelledAt("run", "platformChoice") /\ pc = "exited"

-----------------------------------------------------------------------------
(* C5 *)

\* the value of key k in a header, NoText when the key is absent
FieldValue(fields, k) ==
    IF HasKey(fields, k)
    THEN fields[CHOOSE i \in 1..Len(fields) : fields[i].key = k].value
    ELSE NoText

\* the supplied model is absent, empty or not of the provider/model-name shape
NoWellFormedModelSupplied == ~Truthy(options.model) \/ ~Includes(options.model, "/")

\* C5 as claimed: when the supplied model is absent, empty or has no '/', no
\* model update reaches the merger and no model is written to the OpenCode
\* file or recorded.
C5_InvalidModelIsNoPreference ==
    InSeq("opencode", platforms) /\ NoWellFormedModelSupplied =>
        /\ pc = "oc_write" => ~HasKey(content.fields, "model")
        /\ OpenCodeWritten => ~HasKey(fs.ocAgent.fields, "model")
        /\ ~Truthy(results.opencode.model)

\* C5 amended: a supplied model is never validated.  A non-empty one, with
\* or without a '/', suppresses the model prompts and is the model update,
\* verbatim: it is merged, written and recorded.  With an absent or empty
\* one a model update is made only from an answer at the model prompt, so
\* never in a run without prompts.
C5_SuppliedModelVerbatim ==
    InSeq("opencode", platforms) =>
        /\ Truthy(options.model) =>
              /\ ~Prompted("opencode", "modelChoice")
              /\ ~Prompted("opencode", "customModel")
              /\ pc \in OCStates => selectedModel = options.model
              /\ pc = "oc_write" =>
                    FieldValue(content.fields, "model") = options.model
              /\ OpenCodeWritten =>
                    /\ FieldValue(fs.ocAgent.fields, "model") = options.model
                    /\ results.opencode.model = options.model
        /\ ~Truthy(options.model) =>
              /\ pc = "oc_write" /\ HasKey(content.fields, "model") =>
                    /\ isInteractive
                    /\ Logged("answer", "opencode", "modelChoice")
              /\ OpenCodeWritten /\ HasKey(fs.ocAgent.fields, "model") =>
                    /\ isInteractive
                    /\ Logged("answer", "opencode", "modelChoice")

C5_Witness ==
    /\ options.model = ModelBare
    /\ ~Includes(options.model, "/")
    /\ OpenCodeWritten
    /\ FieldValue(fs.ocAgent.fields, "model") = ModelBare
    /\ report.shown

-----------------------------------------------------------------------------
(* C6 *)

\* the overwrite confirmation of the platform was answered no or cancelled
OverwriteDeclined(plat) ==
    Logged("no", plat, "overwrite") \/ Logged("cancel", plat, "overwrite")

\* C6: in an interactive run that finds the target file, a negative or
\* cancelled overwrite confirmation ends that platform's install as skipped.
\* For OpenCode: the file keeps its old content, no model or color prompt is
\* shown, "Skipping" is reported, nothing is recorded as installed or as an
\* error, and the run is past installOpenCode, at or inside the Copilot
\* block or the report.  For Copilot: the file keeps its old content,
\* "Skipping" is reported, nothing is recorded, and the run is at the report.
C6_DeclinedOverwriteSkips ==
    /\ OverwriteDeclined("opencode") =>
          /\ isInteractive
          /\ fs.ocAgent = OldAgent
          /\ ~OpenCodeWritten
          /\ \A w \in OCPrompts \ {"overwrite"} : ~Prompted("opencode", w)
          /\ Logged("warn", "opencode", "Skipping")
          /\ results.opencode = NullResult
          /\ ~OpenCodeReported
          /\ \A i \in 1..Len(log) :
                log[i].plat = "opencode" => log[i].kind \notin {"error", "throw"}
          /\ pc \in {"cp_begin", "report", "done"} \cup CPStates
                \/ (pc = "threw" /\ log[Len(log)].plat = "copilot")
    /\ OverwriteDeclined("copilot") =>
          /\ isInteractive
          /\ fs.cpAgent = OldCopilot
          /\ ~CopilotWritten
          /\ Logged("warn", "copilot", "Skipping")
          /\ ~results.copilot
          /\ ~CopilotReported
          /\ \A i \in 1..Len(log) :
                log[i].plat = "copilot" => log[i].kind \notin {"error", "throw"}
          /\ pc \in {"report", "done"}

C6_Witness ==
    /\ Logged("no", "opencode", "overwrite")
    /\ Logged("cancel", "copilot", "overwrite")
    /\ fs.ocAgent = OldAgent
    /\ fs.cpAgent = OldCopilot
    /\ pc = "done"

-----------------------------------------------------------------------------
(* C7 *)

NoPromptShown == \A i \in 1..Len(log) : log[i].kind # "prompt"

\* with prompts off nothing waits for the user, and a target file that is
\* found is announced as overwritten and does not stop the install: the
\* write is reached unless the color is rejected or the template is missing
NonInteractiveAsksNothing ==
    ~isInteractive =>
        /\ pc \notin PromptStates
        /\ NoPromptShown
        /\ pc \in OCStates \ {"oc_mkConfig", "oc_mkAgents", "oc_exists"}
              /\ fs.ocAgent.exists
              => Logged("warn", "opencode", "Overwriting...")
        /\ pc \in CPStates \ {"cp_mkdir", "cp_exists"} /\ fs.cpAgent.exists
              => Logged("warn", "copilot", "Overwriting...")
        /\ pc \in {"report", "done"} /\ InSeq("copilot", platforms)
              /\ fs.cpTemplate.exists
              => CopilotWritten /\ fs.cpAgent = fs.cpTemplate
        /\ pc \in {"cp_begin", "report", "done"} \cup CPStates
              /\ InSeq("opencode", platforms) /\ fs.ocTemplate.exists
              /\ ~RejectsColor(options, isInteractive)
              => OpenCodeWritten /\ fs.ocAgent.body = fs.ocTemplate.body

\* C7: with interactive false no prompt of any kind is ever entered, an
\* existing target file is overwritten without confirmation, and the
\* finished run has shown the final report.
C7_NonInteractiveReachesReport ==
    /\ NonInteractiveAsksNothing
    /\ ~isInteractive /\ Terminated => report.shown

\* what holds of the code: the same, for the runs that no exception ends
C7_UnlessThrown ==
    /\ NonInteractiveAsksNothing
    /\ ~isInteractive /\ Terminated /\ pc # "threw" => report.shown

C7_Witness ==
    /\ ~isInteractive
    /\ Logged("warn", "opencode", "Overwriting...")
    /\ Logged("warn", "copilot", "Overwriting...")
    /\ OpenCodeWritten
    /\ CopilotWritten
    /\ report.shown

-----------------------------------------------------------------------------
(* C8 *)

FlagsGiven == options.all \/ options.opencode \/ options.copilot

PlatformsResolved == pc \notin {"start", "platformChoice", "exited"}

\* the platform prompt is skipped exactly when a flag is given, and the
\* flags then resolve to both platforms (all, or both flags) or to the one
\* flagged platform
FlagsResolvePlatforms ==
    FlagsGiven =>
        /\ pc # "platformChoice"
        /\ ~Prompted("run", "platformChoice")
        /\ pc # "start" =>
              platforms = IF options.all \/ (options.opencode /\ options.copilot)
                          THEN BothPlatforms
                          ELSE IF options.opencode THEN <<"opencode">>
                          ELSE <<"copilot">>

\* the answer at the platform prompt is the resolved set
AnswerResolvesPlatforms ==
    Prompted("run", "platformChoice") /\ PlatformsResolved =>
        /\ Logged("chose", "run", "opencode") => platforms = <<"opencode">>
        /\ Logged("chose", "run", "copilot") => platforms = <<"copilot">>
        /\ Logged("chose", "run", "both") => platforms = BothPlatforms
        /\ \E v \in PLATFORM_OPTIONS : Logged("chose", "run", v)

\* C8 as claimed: without flags the three-option prompt is always presented.
C8_PromptUnlessFlags ==
    /\ FlagsResolvePlatforms
    /\ AnswerResolvesPlatforms
    /\ ~FlagsGiven /\ pc # "start" => Prompted("run", "platformChoice")

\* C8 amended: without flags the prompt is presented when the run is
\* interactive, and its answer is the resolved set; a run that is not
\* interactive resolves to both platforms without a prompt.
C8_PlatformResolution ==
    /\ FlagsResolvePlatforms
    /\ AnswerResolvesPlatforms
    /\ ~FlagsGiven /\ isInteractive /\ pc # "start" =>
          Prompted("run", "platformChoice")
    /\ ~FlagsGiven /\ ~isInteractive /\ pc # "start" =>
          /\ ~Prompted("run", "platformChoice")
          /\ platforms = BothPlatforms

C8_Witness ==
    /\ ~FlagsGiven
    /\ ~isInteractive
    /\ platforms = BothPlatforms
    /\ OpenCodeWritten
    /\ CopilotWritten
    /\ pc = "done"

C8_WitnessFlags ==
    /\ options.opencode /\ options.copilot /\ ~options.all
    /\ platforms = BothPlatforms
    /\ ~Prompted("run", "platformChoice")
    /\ pc = "done"

C8_WitnessPrompt ==
    /\ ~FlagsGiven
    /\ Logged("chose", "run", "copilot")
    /\ platforms = <<"copilot">>
    /\ pc = "done"

-----------------------------------------------------------------------------
(* C9 *)

\* how many events of the log satisfy being a write of the platform
RECURSIVE Writes(_, _)
Writes(plat, l) ==
    IF l = <<>> THEN 0
    ELSE (IF Head(l).kind = "write" /\ Head(l).plat = plat THEN 1 ELSE 0)
            + Writes(plat, Tail(l))

\* C9: the two installs never interleave.  Every logged action of the
\* OpenCode install (mkdir, prompt, answer, error, write, exception) comes
\* before every logged action of the Copilot install, and while the run is
\* inside installOpenCode the Copilot install has done nothing; each target
\* file is written at most once; and an install acts (and so writes) only
\* for a platform of the resolved set.
C9_InstallsDoNotInterleave ==
    /\ \A i, j \in 1..Len(log) :
          log[i].plat = "opencode" /\ log[j].plat = "copilot" => i < j
    /\ pc \in OCStates \cup {"start", "platformChoice", "oc_begin"} =>
          /\ \A i \in 1..Len(log) : log[i].plat # "copilot"
          /\ fs.cpAgent \in {NoFile, OldCopilot}
          /\ ~results.copilot
    /\ pc \in CPStates =>
          log # <<>> /\ log[Len(log)].plat = "copilot"
    /\ Writes("opencode", log) <= 1
    /\ Writes("copilot", log) <= 1
    /\ \A i \in 1..Len(log) :
          log[i].plat \in {"opencode", "copilot"} => InSeq(log[i].plat, platforms)
    /\ ~InSeq("opencode", platforms) =>
          pc \notin OCStates /\ fs.ocAgent \in {NoFile, OldAgent}
    /\ ~InSeq("copilot", platforms) =>
          pc \notin CPStates /\ fs.cpAgent \in {NoFile, OldCopilot}

C9_Witness ==
    /\ platforms = BothPlatforms
    /\ Prompted("opencode", "customColor")
    /\ OpenCodeWritten
    /\ Prompted("copilot", "overwrite")
    /\ CopilotWritten
    /\ pc = "done"

C9_WitnessOnePlatform ==
    /\ platforms = <<"copilot">>
    /\ CopilotWritten
    /\ pc = "done"

-----------------------------------------------------------------------------
(* C10 *)

\* the order of the selection steps of installOpenCode; the text prompt of
\* a menu is a sub-step of that menu
StepRank(w) ==
    CASE w = "overwrite" -> 1
      [] w = "modelChoice" -> 2
      [] w = "customModel" -> 3
      [] w = "colorChoice" -> 4
      [] w = "customColor" -> 5

RECURSIVE Shown(_, _, _)
Shown(plat, w, l) ==
    IF l = <<>> THEN 0
    ELSE (IF Head(l) = Ev("prompt", plat, w) THEN 1 ELSE 0) + Shown(plat, w, Tail(l))

IsStepEvent(e) == e.plat = "opencode" /\ e.what \in OCPrompts

\* C10: the selection steps of one OpenCode install run forward only.
\* Everything logged about a step (its prompt, a rejected entry, its
\* answer or cancellation) comes before everything logged about a later
\* step, in the order overwrite, model menu, model text, color menu, color
\* text; every prompt is shown at most once; the model prompts are shown
\* only in an interactive run with no supplied model, the color prompts only
\* in an interactive run with no supplied color; and the Copilot install
\* shows no model or color prompt.
C10_StepsRunForward ==
    /\ \A i, j \in 1..Len(log) :
          i < j /\ IsStepEvent(log[i]) /\ IsStepEvent(log[j])
             => StepRank(log[i].what) <= StepRank(log[j].what)
    /\ \A w \in OCPrompts : Shown("opencode", w, log) <= 1
    /\ \A w \in {"modelChoice", "customModel"} :
          Prompted("opencode", w) \/ pc \in {"oc_modelChoice", "oc_customModel"}
             => isInteractive /\ ~Truthy(options.model)
    /\ \A w \in {"colorChoice", "customColor"} :
          Prompted("opencode", w) \/ pc \in {"oc_colorChoice", "oc_customColor"}
             => isInteractive /\ ~Truthy(options.color)
    /\ \A i \in 1..Len(log) :
          log[i].plat = "copilot" => log[i].what \notin OCPrompts \ {"overwrite"}
    /\ Shown("copilot", "overwrite", log) <= 1
    /\ pc \in CPStates \cup {"report", "done"} =>
          \/ log = <<>>
          \/ ~(log[Len(log)].plat = "opencode" /\ log[Len(log)].kind = "prompt")

C10_Witness ==
    /\ \A w \in OCPrompts : Prompted("opencode", w)
    /\ Logged("reject", "opencode", "customModel")
    /\ Logged("reject", "opencode", "customColor")
    /\ OpenCodeWritten
    /\ Prompted("copilot", "overwrite")
    /\ pc = "done"

-----------------------------------------------------------------------------
(* C11 *)

\* the check for the template file of the platform found it missing
TemplateNotFound(plat) == Logged("error", plat, "template not found")

\* every step of installOpenCode went well: no call threw, no prompt was
\* declined or cancelled, the color was accepted, the template was there
OpenCodeStepsSucceeded ==
    /\ \A i \in 1..Len(log) :
          log[i].plat = "opencode" => log[i].kind \notin {"throw", "no", "cancel", "error"}
    /\ fs.ocTemplate.exists

\* installOpenCode was called and has returned to install()
OpenCodeReturned ==
    /\ InSeq("opencode", platforms)
    /\ \/ pc \in {"cp_begin", "report", "done"} \cup CPStates
       \/ pc = "threw" /\ log[Len(log)].plat = "copilot"

C11_WitnessCopilot ==
    /\ TemplateNotFound("copilot")
    /\ OpenCodeWritten
    /\ OpenCodeReported
    /\ ~CopilotReported
    /\ pc = "done"

-----------------------------------------------------------------------------
(* C12 *)

\* a directory creation or the file write of the platform's install failed
FsFailed(plat) ==
    Logged("throw", plat, "mkdirSync") \/ Logged("throw", plat, "writeFileSync")

\* the failed call was the last thing the platform's install did: the file
\* is not written, nothing is recorded, the call is not made again
FsFailureEndsInstall(plat) ==
    FsFailed(plat) =>
        /\ log[Len(log)].kind = "throw"
        /\ log[Len(log)].plat = plat
        /\ \A i \in 1..(Len(log) - 1) : log[i].kind # "throw"
        /\ ~Logged("write", plat, IF plat = "opencode" THEN "ocAgent" ELSE "cpAgent")
        /\ pc \notin OCStates \cup CPStates
        /\ IF plat = "opencode"
           THEN fs.ocAgent \in {NoFile, OldAgent} /\ results.opencode = NullResult
           ELSE fs.cpAgent \in {NoFile, OldCopilot} /\ ~results.copilot

\* C12: a failed directory creation or file write ends the install of its
\* platform only and is not retried: the file is not written and the call
\* is not made again, the finished run has shown the final report, and
\* after a failure in the OpenCode install the Copilot install, if selected,
\* has been attempted.
C12_FsFailureScopedToPlatform ==
    /\ FsFailureEndsInstall("opencode")
    /\ FsFailureEndsInstall("copilot")
    /\ FsFailed("opencode") /\ Terminated =>
          /\ report.shown
          /\ InSeq("copilot", platforms) => CopilotAttempted
    /\ FsFailed("copilot") /\ Terminated => report.shown

\* what holds of the code: the failure ends the whole run where it happens,
\* with no report and, after an OpenCode failure, no Copilot install
C12_FsFailureEndsRun ==
    /\ FsFailureEndsInstall("opencode")
    /\ FsFailureEndsInstall("copilot")
    /\ FsFailed("opencode") \/ FsFailed("copilot") =>
          /\ pc = "threw"
          /\ ~report.shown
          /\ exitCode = "none"
    /\ FsFailed("opencode") =>
          /\ ~CopilotAttempted
          /\ fs.cpAgent \in {NoFile, OldCopilot}

-----------------------------------------------------------------------------
(* C13 *)

\* the merge of the OpenCode template signalled MalformedDocument
MergeFailed == Logged("throw", "opencode", "updateFrontmatter")

\* C13: a failed merge prevents the write.  While the OpenCode template is
\* there but has no header, the run never stands before the write, the
\* OpenCode file is never written (it keeps what it held before the run),
\* and nothing is recorded or reported for OpenCode; the failure, once
\* signalled, is the last thing the OpenCode install did and the run is no
\* longer inside installOpenCode.  What a write puts into the file is the
\* complete merge of a template with a header, never less.
C13_MergeFailurePreventsWrite ==
    /\ fs.ocTemplate.exists /\ MergeFails(fs.ocTemplate) =>
          /\ pc # "oc_write"
          /\ ~OpenCodeWritten
          /\ fs.ocAgent \in {NoFile, OldAgent}
          /\ results.opencode = NullResult
          /\ ~OpenCodeReported
    /\ MergeFailed =>
          /\ fs.ocTemplate.exists
          /\ MergeFails(fs.ocTemplate)
          /\ log[Len(log)] = Ev("throw", "opencode", "updateFrontmatter")
          /\ pc \notin OCStates
          /\ pc = "threw"
    /\ OpenCodeWritten =>
          /\ fs.ocTemplate.header
          /\ fs.ocAgent.header
          /\ fs.ocAgent.body = fs.ocTemplate.body
          /\ Len(fs.ocAgent.fields) >= Len(fs.ocTemplate.fields)
          /\ HasKey(fs.ocAgent.fields, "color")

C13_Witness ==
    /\ MergeFailed
    /\ fs.ocAgent = OldAgent
    /\ Logged("answer", "opencode", "overwrite")
    /\ Logged("answer", "opencode", "colorChoice")
    /\ pc = "threw"

-----------------------------------------------------------------------------
(* C14 *)

\* the Copilot file is a copy of its template: what stands before the write
\* and what the write leaves in the file is the template, header fields and
\* body untouched
CopilotCopiedVerbatim ==
    /\ pc = "cp_write" => content = fs.cpTemplate
    /\ CopilotWritten =>
          /\ fs.cpTemplate.exists
          /\ fs.cpAgent = fs.cpTemplate
    /\ ~CopilotWritten => fs.cpAgent \in {NoFile, OldCopilot}

\* the OpenCode install, if selected, got past its directories, so that the
\* model and the color were looked at (a failed mkdirSync ends the run the
\* same way whatever the model and the color)
ModelAndColorLookedAt == ~Logged("throw", "opencode", "mkdirSync")

\* C14: the Copilot file is copied verbatim, and the Copilot outcome does
\* not depend on the model or the color.  Stated of one run: in a finished
\* run that selected Copilot, the Copilot file was written (with its
\* template) exactly when the Copilot template was there and no Copilot step
\* failed or was declined, with nothing of the model or the color (the
\* options, the answers, what the OpenCode install did with them) changing
\* that.  Two runs that differ only in the model or the color then agree on
\* the Copilot outcome.
C14_CopilotIgnoresModelAndColor ==
    /\ CopilotCopiedVerbatim
    /\ Terminated /\ InSeq("copilot", platforms) /\ ModelAndColorLookedAt =>
          (CopilotWritten <=> CopilotStepsSucceeded)

\* what holds of the code: the copy is verbatim, and the outcome is that of
\* the Copilot steps alone in the runs the OpenCode install does not end by
\* an exception
C14_UnlessThrown ==
    /\ CopilotCopiedVerbatim
    /\ Terminated /\ InSeq("copilot", platforms)
          /\ (\A i \in 1..Len(log) :
                 log[i].plat = "opencode" => log[i].kind # "throw") =>
          /\ CopilotAttempted
          /\ CopilotWritten <=> CopilotStepsSucceeded
          /\ pc = "threw" \/ report.shown

-----------------------------------------------------------------------------
(* C15 *)

\* the run stands before the OpenCode write or has made it: the merge was
\* called with the resolved color
ColorPassedToMerger == pc = "oc_write" \/ OpenCodeWritten

\* where the resolved color came from
ColorFromOption == Truthy(options.color)
ColorFromMenu == Logged("answer", "opencode", "colorChoice")
                    /\ ~Prompted("opencode", "customColor")
ColorFromText == Logged("answer", "opencode", "customColor")
ColorFromDefault == ~Truthy(options.color) /\ ~isInteractive

\* C15: whenever the OpenCode file is about to be written or was written,
\* the color handed to the merger is non-empty and a valid hex color, and it
\* came from exactly one of: the supplied option (then it is that option),
\* a menu preset, an accepted custom entry, the default (then it is
\* DEFAULT_COLOR); the color field of the content to write, of the written
\* file and of the recorded result is that color.
C15_ColorResolvesToValidHex ==
    ColorPassedToMerger =>
        /\ Truthy(selectedColor)
        /\ isValidHexColor(selectedColor)
        /\ ColorFromOption => selectedColor = options.color
        /\ ColorFromMenu => selectedColor \in COLOR_OPTIONS
        /\ ColorFromText => selectedColor \in ColorTyped
        /\ ColorFromDefault => selectedColor = DEFAULT_COLOR
        /\ ColorFromOption \/ ColorFromMenu \/ ColorFromText \/ ColorFromDefault
        /\ pc = "oc_write" =>
              FieldValue(content.fields, "color") = Quoted(selectedColor)
        /\ OpenCodeWritten =>
              /\ FieldValue(fs.ocAgent.fields, "color") = Quoted(selectedColor)
              /\ results.opencode.color = selectedColor

C15_Witness ==
    /\ OpenCodeWritten
    /\ ColorFromText
    /\ Logged("reject", "opencode", "customColor")
    /\ selectedColor = ColorBlue
    /\ pc = "done"

C15_WitnessOption ==
    /\ OpenCodeWritten
    /\ isInteractive
    /\ options.color = DEFAULT_COLOR
    /\ pc = "done"

-----------------------------------------------------------------------------
(* C16 *)

\* merge(d, {}) = d, and merging u a second time changes nothing
MergeIdempotentOn(d, u) ==
    /\ updateFrontmatter(d, <<>>) = d
    /\ updateFrontmatter(updateFrontmatter(d, u), u) = updateFrontmatter(d, u)

\* C16: the merge is a no-op on the empty update set and idempotent.  For
\* the template d the install has just merged (so d has a header) and every
\* update set u, the installer's own included: merge(d, {}) = d and
\* merge(merge(d, u), u) = merge(d, u); the content about to be written is a
\* fixed point of the installer's updates.  And installing again with the
\* same resolved color and model writes what the first install wrote: in a
\* later run the content before the write is the content the file already
\* holds, so the file is the same after every write.
C16_MergeIdempotent ==
    /\ pc = "oc_write" =>
          /\ ~MergeFails(fs.ocTemplate)
          /\ \A u \in UpdateSets : MergeIdempotentOn(fs.ocTemplate, u)
          /\ updateFrontmatter(fs.ocTemplate, <<>>) = fs.ocTemplate
          /\ updateFrontmatter(content, Updates(selectedModel, selectedColor))
                = content
          /\ \A u \in UpdateSets : MergeIdempotentOn(content, u)
    /\ pc = "oc_write" /\ OpenCodeWritten => content = fs.ocAgent
    /\ OpenCodeWritten =>
          /\ updateFrontmatter(fs.ocAgent,
                               Updates(InitialModel(options), InitialColor(options)))
                = fs.ocAgent
          /\ FieldValue(fs.ocAgent.fields, "color") = Quoted(InitialColor(options))
          /\ fs.ocAgent.body = fs.ocTemplate.body

C16_Witness ==
    /\ Writes("opencode", log) = 2
    /\ HasKey(fs.ocTemplate.fields, "color")
    /\ ~HasKey(fs.ocTemplate.fields, "model")
    /\ Truthy(selectedModel)
    /\ FieldValue(fs.ocAgent.fields, "model") = selectedModel
    /\ pc = "done"

-----------------------------------------------------------------------------
(* C17 *)

\* the entries of u whose key the header lacks, in the order of u
RECURSIVE NewFields(_, _)
NewFields(fields, u) ==
    IF u = <<>> THEN <<>>
    ELSE (IF HasKey(fields, Head(u).key) THEN <<>> ELSE <<Head(u)>>)
            \o NewFields(fields, Tail(u))

\* the merge of u into d keeps every field of d at its position, with the
\* value of u if u has the key and its own value if not, and puts the new
\* keys after them, in the order of u; the body is untouched
MergePreservesOrder(d, u) ==
    LET r == updateFrontmatter(d, u)
        n == Len(d.fields)
        new == NewFields(d.fields, u)
    IN  /\ r.exists /\ r.header = d.header /\ r.body = d.body
        /\ Len(r.fields) = n + Len(new)
        /\ \A i \in 1..n :
              /\ r.fields[i].key = d.fields[i].key
              /\ r.fields[i].value = IF HasKey(u, d.fields[i].key)
                                     THEN FieldValue(u, d.fields[i].key)
                                     ELSE d.fields[i].value
        /\ \A j \in 1..Len(new) : r.fields[n + j] = new[j]

\* C17: the merge preserves positions and appends new keys.  For the
\* template the install has just merged and every update set: every field
\* of the header keeps its position, a field the updates name gets their
\* value and any other keeps its own, and the keys the header lacks come
\* after all of them in the order of the updates.  For the installer's own
\* updates: the content to write has the template's fields in place, the
\* color replaced by the quoted resolved color and the model by the resolved
\* model if there is one; a color the template lacks is appended first and a
\* model it lacks last, so color comes before model among the new keys.
C17_MergeKeepsPositions ==
    pc = "oc_write" =>
        LET d == fs.ocTemplate
            n == Len(fs.ocTemplate.fields)
            newColor == ~HasKey(fs.ocTemplate.fields, "color")
            newModel == ~HasKey(fs.ocTemplate.fields, "model") /\ Truthy(selectedModel)
        IN  /\ \A u \in UpdateSets : MergePreservesOrder(d, u)
            /\ content.header /\ content.body = d.body
            /\ Len(content.fields) = n + (IF newColor THEN 1 ELSE 0)
                                       + (IF newModel THEN 1 ELSE 0)
            /\ \A i \in 1..n :
                  /\ content.fields[i].key = d.fields[i].key
                  /\ content.fields[i].value =
                        IF d.fields[i].key = "color" THEN Quoted(selectedColor)
                        ELSE IF d.fields[i].key = "model" /\ Truthy(selectedModel)
                        THEN selectedModel
                        ELSE d.fields[i].value
            /\ newColor => content.fields[n + 1] = Field("color", Quoted(selectedColor))
            /\ newModel => content.fields[Len(content.fields)] = Field("model", selectedModel)

C17_Witness ==
    /\ pc = "oc_write"
    /\ fs.ocTemplate.fields = <<Field("description", <<"L">>)>>
    /\ selectedModel = ModelFull
    /\ content.fields = <<Field("description", <<"L">>),
                          Field("color", Quoted(selectedColor)),
                          Field("model", ModelFull)>>

C17_WitnessInPlace ==
    /\ pc = "oc_write"
    /\ fs.ocTemplate.fields = <<Field("model", ModelBare), Field("color", Quoted(ColorRed))>>
    /\ content.fields = <<Field("model", ModelFull), Field("color", Quoted(ColorBlue))>>

-----------------------------------------------------------------------------
(* C18 *)

\* where the resolved model came from
ModelFromOption == Truthy(options.model)
ModelFromMenu == Logged("answer", "opencode", "modelChoice")
                    /\ ~Prompted("opencode", "customModel")
ModelFromText == Logged("answer", "opencode", "customModel")
ModelFromNowhere == ~Truthy(options.model) /\ ~isInteractive

\* the document the updates were merged into: the content before the write,
\* the target file after it.  The template has no model key of its own, so
\* a model key in it is the model update.
Merged == IF pc = "oc_write" THEN content ELSE fs.ocAgent

\* C18: whenever the merge was called, its updates hold the color key with
\* the resolved color between double quotes, and hold the model key exactly
\* when the resolved model is non-empty, with the resolved model as its
\* value.  The resolved model is the supplied option when there is one, else
\* the menu preset chosen, else the accepted custom entry, else (no prompts)
\* empty.  An empty resolved model leaves the merged document without a
\* model key, and the report of the finished run then shows the model as
\* "OpenCode default"; a non-empty one is recorded and shown as it is.
C18_UpdateSetFollowsResolution ==
    ColorPassedToMerger =>
        /\ ~HasKey(fs.ocTemplate.fields, "model")
        /\ HasKey(Merged.fields, "color")
        /\ FieldValue(Merged.fields, "color") = <<"\"">> \o selectedColor \o <<"\"">>
        /\ HasKey(Merged.fields, "model") <=> Truthy(selectedModel)
        /\ Truthy(selectedModel) => FieldValue(Merged.fields, "model") = selectedModel
        /\ ModelFromOption => selectedModel = options.model
        /\ ModelFromMenu => selectedModel \in MODEL_OPTIONS
        /\ ModelFromText => selectedModel \in ModelTyped /\ ModelTextAccepted(selectedModel)
        /\ ModelFromNowhere => selectedModel = NoText
        /\ ModelFromOption \/ ModelFromMenu \/ ModelFromText \/ ModelFromNowhere
        /\ OpenCodeWritten => results.opencode.model = selectedModel
        /\ OpenCodeWritten /\ pc = "done" =>
              /\ InSeq(Line("Model", IF Truthy(selectedModel) THEN selectedModel
                                     ELSE <<"OpenCode default">>),
                       report.installed)
              /\ \A i \in 1..Len(report.installed) :
                    report.installed[i].label = "Model" /\ ~Truthy(selectedModel)
                       => report.installed[i].value = <<"OpenCode default">>

C18_Witness ==
    /\ OpenCodeWritten
    /\ ModelFromText
    /\ selectedModel = NoText
    /\ ~HasKey(fs.ocAgent.fields, "model")
    /\ InSeq(Line("Model", <<"OpenCode default">>), report.installed)
    /\ pc = "done"

C18_WitnessPreset ==
    /\ OpenCodeWritten
    /\ ModelFromMenu
    /\ FieldValue(fs.ocAgent.fields, "model") = ModelFull
    /\ InSeq(Line("Model", ModelFull), report.installed)
    /\ pc = "done"

-----------------------------------------------------------------------------
(* C19 *)

\* the report has the line
Reports(l, v) == InSeq(Line(l, v), report.installed)

\* how many lines of the report carry the label
RECURSIVE LinesLabelled(_, _)
LinesLabelled(l, lines) ==
    IF lines = <<>> THEN 0
    ELSE (IF Head(lines).label = l THEN 1 ELSE 0) + LinesLabelled(l, Tail(lines))

\* C19: the report agrees with what was written.  Once the report is shown,
\* OpenCode is listed exactly when the OpenCode file was written in the run
\* and Copilot exactly when the Copilot file was; a listed OpenCode comes
\* with one color line and one model line, the color being the resolved
\* color that the file holds in quotes and the model the resolved model that
\* the file holds, or "OpenCode default" when none was merged; and the outro
\* is "No agents were installed." exactly when neither file was written.
\* Before the report nothing is shown.
C19_ReportAgreesWithWrites ==
    /\ ~report.shown => report.installed = <<>> /\ report.outro = "none"
    /\ report.shown =>
          /\ pc = "done"
          /\ Reports("OpenCode", <<"ocAgent">>) <=> OpenCodeWritten
          /\ OpenCodeReported <=> OpenCodeWritten
          /\ Reports("GitHub Copilot", <<"cpAgent">>) <=> CopilotWritten
          /\ \A l \in {"OpenCode", "Color", "Model"} :
                LinesLabelled(l, report.installed) = IF OpenCodeWritten THEN 1 ELSE 0
          /\ LinesLabelled("GitHub Copilot", report.installed)
                = IF CopilotWritten THEN 1 ELSE 0
          /\ OpenCodeWritten =>
                /\ Reports("Color", selectedColor)
                /\ FieldValue(fs.ocAgent.fields, "color") = Quoted(selectedColor)
                /\ IF Truthy(selectedModel)
                   THEN /\ Reports("Model", selectedModel)
                        /\ FieldValue(fs.ocAgent.fields, "model") = selectedModel
                   ELSE /\ Reports("Model", <<"OpenCode default">>)
                        /\ ~HasKey(fs.ocAgent.fields, "model")
          /\ report.outro = "No agents were installed."
                <=> ~OpenCodeWritten /\ ~CopilotWritten
          /\ report.outro = "installed" <=> OpenCodeWritten \/ CopilotWritten
          /\ ~OpenCodeWritten => fs.ocAgent \in {NoFile, OldAgent}
          /\ ~CopilotWritten => fs.cpAgent \in {NoFile, OldCopilot}

C19_Witness ==
    /\ report.shown
    /\ platforms = BothPlatforms
    /\ OpenCodeWritten
    /\ ~CopilotWritten
    /\ Reports("Color", ColorBlue)
    /\ Reports("Model", ModelFull)
    /\ ~CopilotReported
    /\ report.outro = "installed"

C19_WitnessNothing ==
    /\ report.shown
    /\ platforms = BothPlatforms
    /\ ~OpenCodeWritten
    /\ ~CopilotWritten
    /\ report.outro = "No agents were installed."

-----------------------------------------------------------------------------
(* C20 *)

\* the config directory and the agents subdirectory of the platform
PlatformDirs(plat) ==
    IF plat = "opencode" THEN {"ocConfig", "ocAgents"} ELSE {"cpConfig", "cpAgents"}

\* how many times the log has a mkdir of the directory
RECURSIVE Mkdirs(_, _)
Mkdirs(d, l) ==
    IF l = <<>> THEN 0
    ELSE (IF Head(l).kind = "mkdir" /\ Head(l).what = d THEN 1 ELSE 0)
            + Mkdirs(d, Tail(l))

\* what an install does once its directories are there: everything but the
\* mkdir calls themselves (and the spinner, which install() starts before
\* it calls installCopilot)
AfterDirectories(e) ==
    /\ e.kind \notin {"mkdir", "spinner"}
    /\ ~(e.kind = "throw" /\ e.what = "mkdirSync")

\* the directories of each platform are there when its file is written and
\* from its first step on: at every position of an install past its mkdir
\* calls, and whenever the log holds a prompt, an answer, a warning, an
\* error or a write of the platform, both directories exist, also after the
\* install was skipped, cancelled or rejected; in the log of a platform
\* nothing but mkdir calls comes before a mkdir call
DirectoriesComeFirst ==
    /\ pc = "oc_write" \/ OpenCodeWritten => PlatformDirs("opencode") \subseteq dirs
    /\ pc = "cp_write" \/ CopilotWritten => PlatformDirs("copilot") \subseteq dirs
    /\ pc \in OCStates \ {"oc_mkConfig", "oc_mkAgents"} =>
          PlatformDirs("opencode") \subseteq dirs
    /\ pc \in CPStates \ {"cp_mkdir"} => PlatformDirs("copilot") \subseteq dirs
    /\ pc = "oc_mkAgents" => "ocConfig" \in dirs
    /\ \A i \in 1..Len(log) :
          log[i].plat \in {"opencode", "copilot"} /\ AfterDirectories(log[i])
             => PlatformDirs(log[i].plat) \subseteq dirs
    /\ \A i, j \in 1..Len(log) :
          i < j /\ log[j].kind = "mkdir" /\ log[i].plat = log[j].plat
             => log[i].kind \in {"mkdir", "spinner"}
    /\ \A d \in {"ocConfig", "ocAgents", "cpAgents"} :
          /\ Mkdirs(d, log) <= 1
          /\ Mkdirs(d, log) = 1 => d \in dirs
    /\ "ocAgents" \in dirs => "ocConfig" \in dirs
    /\ "cpAgents" \in dirs => "cpConfig" \in dirs

\* a step removes no directory and makes no mkdir call for a directory that
\* is there
DirectoriesKept ==
    /\ dirs \subseteq dirs'
    /\ \A d \in dirs : Mkdirs(d, log') = Mkdirs(d, log)

\* C20: the directories exist before the file is written.  Directory
\* creation is the first thing each install does, before every prompt,
\* validation and write; it is skipped for a directory that is already
\* there; and no step, whether the install goes on or is skipped, cancelled
\* or rejected, removes a directory.
C20_DirectoriesBeforeWrite == []DirectoriesComeFirst /\ [][DirectoriesKept]_vars

C20_Witness ==
    /\ Logged("mkdir", "opencode", "ocConfig")
    /\ Logged("mkdir", "opencode", "ocAgents")
    /\ CancelledAt("opencode", "colorChoice")
    /\ PlatformDirs("opencode") \subseteq dirs
    /\ ~Logged("mkdir", "copilot", "cpAgents")
    /\ CopilotWritten
    /\ PlatformDirs("copilot") \subseteq dirs
    /\ pc = "done"

====
